---- MODULE Spec2Model ----
(***************************************************************************)
(* NexGen-Logistics: the data-fusion pipeline (data_loader.py) and the     *)
(* delay-risk trainer (model.py) with the inference step of the Delivery   *)
(* Risk Predictor page (app.py).                                           *)
(*                                                                         *)
(* A pandas table is a record [cols, rows]: cols is the sequence of column *)
(* labels, rows the sequence of rows, each row a sequence of cells aligned *)
(* with cols.  A cell is <<"n", k>> (a number), <<"s", str>> (a string) or *)
(* Null (NaN).                                                             *)
(***************************************************************************)
EXTENDS Integers, Sequences, FiniteSets, TLC

VARIABLES orders, delivery, routes, vehicles, costs, warehouse, feedback,
          df, pc, err,
          df_model, encoders, split, model, metrics, features,
          input_data, risk

loaderVars == <<orders, delivery, routes, vehicles, costs, warehouse, feedback>>
trainVars == <<df_model, encoders, split, model, metrics, features, input_data, risk>>
vars == <<orders, delivery, routes, vehicles, costs, warehouse, feedback,
          df, pc, err,
          df_model, encoders, split, model, metrics, features,
          input_data, risk>>

(***************************************************************************)
(* Cells and tables                                                        *)
(***************************************************************************)
Null == <<"null", 0>>
Num(k) == <<"n", k>>
Str(s) == <<"s", s>>
IsNull(c) == c[1] = "null"
IsNum(c) == c[1] = "n"
IsStr(c) == c[1] = "s"

Range(s) == {s[i] : i \in 1..Len(s)}
EmptyTable == [cols |-> <<>>, rows |-> <<>>]

Has(t, name) == name \in Range(t.cols)
ColIdx(t, name) == CHOOSE i \in 1..Len(t.cols) :
                      /\ t.cols[i] = name
                      /\ \A j \in 1..(i - 1) : t.cols[j] # name
Cell(t, r, name) == t.rows[r][ColIdx(t, name)]
Column(t, name) == [r \in 1..Len(t.rows) |-> Cell(t, r, name)]
NRows(t) == Len(t.rows)

\* df[name] = values, for a label that is not yet a column: appended last.
AddColumn(t, name, values) ==
    [cols |-> Append(t.cols, name),
     rows |-> [r \in 1..Len(t.rows) |-> Append(t.rows[r], values[r])]]
\* df[name] = values: an existing column is overwritten in place
SetColumn(t, name, values) ==
    IF Has(t, name)
    THEN [cols |-> t.cols,
          rows |-> [r \in 1..Len(t.rows) |->
                      [i \in 1..Len(t.cols) |->
                         IF t.cols[i] = name THEN values[r] ELSE t.rows[r][i]]]]
    ELSE AddColumn(t, name, values)
ConstColumn(t, c) == [r \in 1..Len(t.rows) |-> c]

\* df.rename(columns={old: new}): every label equal to old becomes new.
Rename(t, old, new) ==
    [cols |-> [i \in 1..Len(t.cols) |-> IF t.cols[i] = old THEN new ELSE t.cols[i]],
     rows |-> t.rows]

RECURSIVE SelectSeq2(_, _, _)
\* the subsequence of s at the indices i for which keep[i] holds
SelectSeq2(s, keep, i) ==
    IF i > Len(s) THEN <<>>
    ELSE IF keep[i] THEN <<s[i]>> \o SelectSeq2(s, keep, i + 1)
         ELSE SelectSeq2(s, keep, i + 1)

\* df[[names...]]
Project(t, names) ==
    [cols |-> names,
     rows |-> [r \in 1..Len(t.rows) |->
                 [k \in 1..Len(names) |-> Cell(t, r, names[k])]]]

\* df.drop(columns=[name])
DropColumn(t, name) ==
    LET keep == [i \in 1..Len(t.cols) |-> t.cols[i] # name]
    IN  [cols |-> SelectSeq2(t.cols, keep, 1),
         rows |-> [r \in 1..Len(t.rows) |-> SelectSeq2(t.rows[r], keep, 1)]]

\* df.drop_duplicates(subset=names): the first row of every distinct key.
DropDuplicates(t, names) ==
    LET key(r) == [k \in 1..Len(names) |-> Cell(t, r, names[k])]
        keep == [r \in 1..Len(t.rows) |-> \A q \in 1..(r - 1) : key(q) # key(r)]
    IN  [cols |-> t.cols, rows |-> SelectSeq2(t.rows, keep, 1)]

\* df.dropna(): the rows without a null cell.
DropNa(t) ==
    LET keep == [r \in 1..Len(t.rows) |->
                   \A i \in 1..Len(t.cols) : ~IsNull(t.rows[r][i])]
    IN  [cols |-> t.cols, rows |-> SelectSeq2(t.rows, keep, 1)]

(***************************************************************************)
(* Column Normalizer                                                       *)
(***************************************************************************)
\* str.strip().str.lower().str.replace(" ", "_") on the headers the model's
\* source tables use; every other header of the model is already normal.
StdName(h) ==
    CASE h = "OrderID" -> "orderid"
      [] h = "Order ID" -> "order_id"
      [] h = " order_id " -> "order_id"
      [] h = "VehicleID" -> "vehicleid"
      [] h = "Vehicle ID" -> "vehicle_id"
      [] h = "Warehouse ID" -> "warehouse_id"
      [] h = "Customer Segment" -> "customer_segment"
      [] h = "Rating" -> "rating"
      [] OTHER -> h

standardize_columns(t) ==
    [cols |-> [i \in 1..Len(t.cols) |-> StdName(t.cols[i])], rows |-> t.rows]

\* a rename whose result is thrown away (rename without inplace=True)
auto_rename_id_lost(t, possible_names, standard_name) == t

RECURSIVE auto_rename_id(_, _, _)
auto_rename_id(t, possible_names, standard_name) ==
    IF possible_names = <<>> THEN t
    ELSE IF Has(t, Head(possible_names))
         THEN Rename(t, Head(possible_names), standard_name)
         ELSE auto_rename_id(t, Tail(possible_names), standard_name)

OrderIdNames == <<"orderid", "order_id">>
VehicleIdNames == <<"vehicleid", "vehicle_id">>
WarehouseIdNames == <<"warehouseid", "warehouse_id">>

(***************************************************************************)
(* Decimal text of an order id and its last four characters                *)
(***************************************************************************)
Digit(d) ==
    CASE d = 0 -> "0" [] d = 1 -> "1" [] d = 2 -> "2" [] d = 3 -> "3"
      [] d = 4 -> "4" [] d = 5 -> "5" [] d = 6 -> "6" [] d = 7 -> "7"
      [] d = 8 -> "8" [] d = 9 -> "9"

RECURSIVE Decimal(_)
Decimal(n) == IF n < 10 THEN Digit(n) ELSE Decimal(n \div 10) \o Digit(n % 10)

\* astype(str).str[-4:] of a non-negative integer cell
Last4(n) ==
    IF n < 10000 THEN Decimal(n)
    ELSE Digit((n \div 1000) % 10) \o Digit((n \div 100) % 10)
         \o Digit((n \div 10) % 10) \o Digit(n % 10)

\* orders["customer_segment"] + "_" + orders["order_id"].astype(str).str[-4:]
CustomerIdOf(segment, order_id) ==
    IF IsNull(segment) THEN Null
    ELSE Str(segment[2] \o "_" \o Last4(order_id[2]))

(***************************************************************************)
(* pandas merge(how="left", on=key), suffixes ("_x", "_y")                 *)
(***************************************************************************)
Count(s, x) == Cardinality({i \in 1..Len(s) : s[i] = x})
NoDuplicates(s) == \A i, j \in 1..Len(s) : s[i] = s[j] => i = j

MergedLeftCols(left, right, key) ==
    [i \in 1..Len(left.cols) |->
       IF left.cols[i] # key /\ left.cols[i] \in Range(right.cols)
       THEN left.cols[i] \o "_x" ELSE left.cols[i]]

MergedRightCols(left, right, key) ==
    SelectSeq2([i \in 1..Len(right.cols) |->
                  IF right.cols[i] \in Range(left.cols)
                  THEN right.cols[i] \o "_y" ELSE right.cols[i]],
               [i \in 1..Len(right.cols) |-> right.cols[i] # key], 1)

\* the exception the merge ends in, "" when it goes through
MergeError(left, right, key) ==
    IF ~Has(left, key) \/ ~Has(right, key) THEN "KeyError"
    ELSE IF Count(left.cols, key) > 1 \/ Count(right.cols, key) > 1 THEN "ValueError"
    ELSE IF ~NoDuplicates(MergedLeftCols(left, right, key)
                          \o MergedRightCols(left, right, key)) THEN "MergeError"
    ELSE ""

RECURSIVE MatchRows(_, _, _, _, _)
\* left row l joined with every right row from index j on that carries its key
\* (NaN keys match each other), in the right table's order
MatchRows(lrow, lkey, right, key, j) ==
    IF j > Len(right.rows) THEN <<>>
    ELSE IF Cell(right, j, key) = lkey
         THEN <<lrow \o SelectSeq2(right.rows[j],
                                   [i \in 1..Len(right.cols) |-> right.cols[i] # key], 1)>>
              \o MatchRows(lrow, lkey, right, key, j + 1)
         ELSE MatchRows(lrow, lkey, right, key, j + 1)

RECURSIVE MergeRows(_, _, _, _)
MergeRows(left, right, key, l) ==
    IF l > Len(left.rows) THEN <<>>
    ELSE LET m == MatchRows(left.rows[l], Cell(left, l, key), right, key, 1)
         IN  (IF m = <<>>
              THEN <<left.rows[l] \o [i \in 1..(Len(right.cols) - 1) |-> Null]>>
              ELSE m) \o MergeRows(left, right, key, l + 1)

Merge(left, right, key) ==
    [cols |-> MergedLeftCols(left, right, key) \o MergedRightCols(left, right, key),
     rows |-> MergeRows(left, right, key, 1)]

(***************************************************************************)
(* Post-join defaulting (data_loader.py 68-121)                            *)
(***************************************************************************)
\* the labels of the model that contain "cost" or "charge", before suffixing
CostWords == {"fuel_cost", "maintenance_cost", "total_cost", "delivery_charge"}

\* 'cost' in c.lower() or 'charge' in c.lower()
IsCostColumn(c) == \E w \in CostWords : c \in {w, w \o "_x", w \o "_y"}

\* a defaulting step that also fills the null cells of an existing column
SetDefaultBackfill(t, col, alt, const) ==
    IF Has(t, col)
    THEN [cols |-> t.cols,
          rows |-> [r \in 1..Len(t.rows) |->
                      [i \in 1..Len(t.cols) |->
                         IF t.cols[i] = col /\ IsNull(t.rows[r][i])
                         THEN const ELSE t.rows[r][i]]]]
    ELSE IF alt # "" /\ Has(t, alt) THEN AddColumn(t, col, Column(t, alt))
    ELSE AddColumn(t, col, ConstColumn(t, const))

\* a defaulting step that ignores the alternate column
SetDefaultNoAlt(t, col, alt, const) ==
    IF Has(t, col) THEN t ELSE AddColumn(t, col, ConstColumn(t, const))

\* if col not in df.columns: copy alt if it is a column, else the constant;
\* alt = "" for the columns that have no alternate
SetDefault(t, col, alt, const) ==
    IF Has(t, col) THEN t
    ELSE IF alt # "" /\ Has(t, alt) THEN AddColumn(t, col, Column(t, alt))
    ELSE AddColumn(t, col, ConstColumn(t, const))

RECURSIVE SumCells(_, _, _)
\* df[cost_columns].sum(axis=1, skipna=True) for one row
SumCells(t, r, i) ==
    IF i > Len(t.cols) THEN 0
    ELSE (IF IsCostColumn(t.cols[i]) /\ IsNum(t.rows[r][i]) THEN t.rows[r][i][2] ELSE 0)
         + SumCells(t, r, i + 1)

DefaultTotalCost == 1000

SetTotalCost(t) ==
    IF Has(t, "total_cost") THEN t
    ELSE IF \E i \in 1..Len(t.cols) : IsCostColumn(t.cols[i])
         THEN AddColumn(t, "total_cost",
                        [r \in 1..Len(t.rows) |-> Num(SumCells(t, r, 1))])
         ELSE AddColumn(t, "total_cost", ConstColumn(t, Num(DefaultTotalCost)))

\* a defaulting pass that leaves out the last column of the list
ApplyDefaultsShort(t) ==
    LET t1 == SetDefault(t, "route_distance_km", "distance_km", Num(100))
        t2 == SetDefault(t1, "vehicle_capacity", "", Num(1000))
        t3 == SetDefault(t2, "warehouse_load", "", Num(50))
        t4 == SetDefault(t3, "delivery_priority", "priority", Str("medium"))
        t5 == SetDefault(t4, "fuel_cost", "", Num(500))
        t6 == SetDefault(t5, "maintenance_cost", "vehicle_maintenance", Num(200))
        t7 == SetDefault(t6, "actual_delivery_days", "", Num(5))
        t8 == SetDefault(t7, "expected_delivery_days", "promised_delivery_days", Num(3))
        t9 == SetTotalCost(t8)
    IN  SetDefault(t9, "feedback_score", "rating", Num(3))

ApplyDefaults(t) ==
    LET t1 == SetDefault(t, "route_distance_km", "distance_km", Num(100))
        t2 == SetDefault(t1, "vehicle_capacity", "", Num(1000))
        t3 == SetDefault(t2, "warehouse_load", "", Num(50))
        t4 == SetDefault(t3, "delivery_priority", "priority", Str("medium"))
        t5 == SetDefault(t4, "fuel_cost", "", Num(500))
        t6 == SetDefault(t5, "maintenance_cost", "vehicle_maintenance", Num(200))
        t7 == SetDefault(t6, "actual_delivery_days", "", Num(5))
        t8 == SetDefault(t7, "expected_delivery_days", "promised_delivery_days", Num(3))
        t9 == SetTotalCost(t8)
        t10 == SetDefault(t9, "feedback_score", "rating", Num(3))
    IN  SetDefault(t10, "fuel_consumption_rate", "fuel_consumption_l", Num(5))

(***************************************************************************)
(* Customer-level feedback join (data_loader.py 56-65)                     *)
(***************************************************************************)
\* df[["order_id", "customer_id"]].drop_duplicates()
OrderToCustomer(t) ==
    DropDuplicates(Project(t, <<"order_id", "customer_id">>),
                   <<"order_id", "customer_id">>)

\* feedback.merge(order_to_customer, on="order_id", how="left")
FeedbackWithCustomer(fb, t) == Merge(fb, OrderToCustomer(t), "order_id")

\* feedback.drop(columns=["order_id"]).drop_duplicates(subset=["customer_id"])
PerCustomer(fbc) == DropDuplicates(DropColumn(fbc, "order_id"), <<"customer_id">>)

FeedbackJoinError(t, fb) ==
    IF Has(t, "customer_id")
    THEN IF MergeError(fb, OrderToCustomer(t), "order_id") # ""
         THEN MergeError(fb, OrderToCustomer(t), "order_id")
         ELSE IF ~Has(FeedbackWithCustomer(fb, t), "customer_id") THEN "KeyError"
         ELSE MergeError(t, PerCustomer(FeedbackWithCustomer(fb, t)), "customer_id")
    ELSE MergeError(t, fb, "order_id")

(***************************************************************************)
(* Source tables of the model                                              *)
(***************************************************************************)
MaxOrders == 2
MaxDelivery == 2
MaxFeedback == 2
MaxExtraCols == 2

SeqsUpTo(S, lo, n) == UNION {[1..k -> S] : k \in lo..n}

\* 10007 and 20007 end in the same four characters, 7 is shorter than four
OrderIdPool == {7, 10007, 20007}
\* 99 is the id of no order
FeedbackIdPool == {7, 10007, 99}

Required == <<"route_distance_km", "vehicle_capacity", "warehouse_load",
              "delivery_priority", "fuel_cost", "maintenance_cost",
              "actual_delivery_days", "expected_delivery_days", "total_cost",
              "feedback_score", "fuel_consumption_rate">>

\* the labels a source table of the model may carry beside its key, each with
\* the table it comes in and a number that tells its cells apart
ColPool ==
    << <<"route_distance_km", "routes", 11>>, <<"distance_km", "routes", 12>>,
       <<"vehicle_capacity", "orders", 13>>, <<"warehouse_load", "orders", 14>>,
       <<"delivery_priority", "orders", 15>>, <<"priority", "orders", 16>>,
       <<"fuel_cost", "costs", 17>>, <<"maintenance_cost", "costs", 18>>,
       <<"vehicle_maintenance", "costs", 19>>,
       <<"actual_delivery_days", "delivery", 6>>,
       <<"expected_delivery_days", "delivery", 4>>,
       <<"promised_delivery_days", "delivery", 2>>,
       <<"total_cost", "costs", 23>>, <<"delivery_charge", "costs", 24>>,
       <<"feedback_score", "feedback", 5>>, <<"rating", "feedback", 4>>,
       <<"fuel_consumption_rate", "routes", 27>>,
       <<"fuel_consumption_l", "routes", 28>>,
       <<"customer_id", "feedback", 29>> >>
PoolNames == {ColPool[k][1] : k \in 1..Len(ColPool)}

\* the cell of pool column k in row r of table tbl: text for the priority
\* columns, a number otherwise, and NaN in the second row of orders
PoolCell(k, tbl, r) ==
    IF tbl = "orders" /\ r = 2 THEN Null
    ELSE IF ColPool[k][1] \in {"delivery_priority", "priority"}
         THEN Str(IF tbl = "orders" THEN "high" ELSE "low")
    ELSE IF ColPool[k][1] = "customer_id" THEN Str("C9")
    ELSE Num(ColPool[k][3] + (IF tbl = ColPool[k][2] THEN 0 ELSE 100))

\* the second table a pool column comes in when it comes in two
OtherHome(k) == IF ColPool[k][2] = "orders" THEN "delivery" ELSE "orders"

RECURSIVE WithExtras(_, _, _, _, _)
\* table t named tbl with the pool columns of S that belong to it appended
WithExtras(t, tbl, S, also, k) ==
    IF k > Len(ColPool) THEN t
    ELSE IF ColPool[k][1] \in S
            /\ (ColPool[k][2] = tbl \/ (ColPool[k][1] = also /\ OtherHome(k) = tbl))
         THEN WithExtras(AddColumn(t, ColPool[k][1],
                                   [r \in 1..Len(t.rows) |-> PoolCell(k, tbl, r)]),
                         tbl, S, also, k + 1)
         ELSE WithExtras(t, tbl, S, also, k + 1)

BaseOrders == [cols |-> <<"order_id", "Customer Segment">>,
               rows |-> << <<Num(7), Str("A")>>, <<Num(10007), Str("B")>> >>]
BaseDelivery == [cols |-> <<"order_id", "delivery_status">>,
                 rows |-> << <<Num(7), Str("late")>> >>]
BaseRoutes == [cols |-> <<"order_id", "route">>,
               rows |-> << <<Num(7), Str("R1")>> >>]
BaseCosts == [cols |-> <<"order_id", "toll">>,
              rows |-> << <<Num(7), Num(30)>> >>]
BaseFeedback == [cols |-> <<"order_id", "Rating">>,
                 rows |-> << <<Num(7), Num(4)>> >>]
BareFeedback == [cols |-> <<"order_id", "comment">>,
                 rows |-> << <<Num(7), Str("ok")>> >>]
BaseVehicles == [cols |-> <<"Vehicle ID", "vehicle_capacity">>,
                 rows |-> << <<Num(1), Num(800)>> >>]
BothVehicles == [cols |-> <<"vehicle_id", "VehicleID">>,
                 rows |-> << <<Num(1), Num(1)>> >>]
BaseWarehouse == [cols |-> <<"Warehouse ID", "warehouse_load">>,
                  rows |-> << <<Num(1), Num(60)>> >>]

\* orders and delivery vary in their rows and in the spelling of the key
InitKeys ==
    /\ \E ko \in {"OrderID", "Order ID"}, ids \in SeqsUpTo(OrderIdPool, 1, MaxOrders) :
          orders = [cols |-> <<ko, "Customer Segment">>,
                    rows |-> [i \in 1..Len(ids) |-> <<Num(ids[i]), Str("A")>>]]
    /\ \E kd \in {"OrderID", " order_id "}, ids \in SeqsUpTo(OrderIdPool, 0, MaxDelivery) :
          delivery = [cols |-> <<kd, "delivery_status">>,
                      rows |-> [i \in 1..Len(ids) |-> <<Num(ids[i]), Num(i)>>]]
    /\ routes = BaseRoutes /\ costs = BaseCosts /\ feedback = BaseFeedback
    /\ vehicles = BaseVehicles /\ warehouse = BaseWarehouse

\* orders vary in their rows and in how the customer is given (a segment, a
\* customer_id, neither); feedback varies in its rows
InitCustomers ==
    /\ \E mode \in {"Customer Segment", "customer_id", ""},
          rws \in SeqsUpTo(OrderIdPool \X {Str("A"), Null}, 1, MaxOrders) :
          orders = IF mode = ""
                   THEN [cols |-> <<"order_id">>,
                         rows |-> [i \in 1..Len(rws) |-> <<Num(rws[i][1])>>]]
                   ELSE [cols |-> <<"order_id", mode>>,
                         rows |-> [i \in 1..Len(rws) |-> <<Num(rws[i][1]), rws[i][2]>>]]
    /\ \E ids \in SeqsUpTo(FeedbackIdPool, 0, MaxFeedback) :
          feedback = [cols |-> <<"OrderID", "Rating">>,
                      rows |-> [i \in 1..Len(ids) |-> <<Num(ids[i]), Num(i)>>]]
    /\ delivery = BaseDelivery /\ routes = BaseRoutes /\ costs = BaseCosts
    /\ vehicles = BaseVehicles /\ warehouse = BaseWarehouse

\* the tables vary in the columns they carry: at most MaxExtraCols pool
\* columns, one of them possibly in two tables
InitColumns ==
    \E S \in SUBSET PoolNames :
       /\ Cardinality(S) <= MaxExtraCols
       /\ \E also \in S \cup {""} :
            /\ orders = WithExtras(BaseOrders, "orders", S, also, 1)
            /\ delivery = WithExtras(BaseDelivery, "delivery", S, also, 1)
            /\ routes = WithExtras(BaseRoutes, "routes", S, also, 1)
            /\ costs = WithExtras(BaseCosts, "costs", S, also, 1)
            /\ feedback = WithExtras(BareFeedback, "feedback", S, also, 1)
       /\ vehicles \in {BaseVehicles, BothVehicles}
       /\ warehouse = BaseWarehouse

InitTrainVars ==
    /\ df_model = EmptyTable /\ encoders = <<>> /\ split = <<>>
    /\ model = <<>> /\ metrics = <<>> /\ features = <<>>
    /\ input_data = EmptyTable /\ risk = <<>>

Init ==
    /\ InitKeys \/ InitCustomers \/ InitColumns
    /\ df = EmptyTable /\ pc = "start" /\ err = ""
    /\ InitTrainVars

(***************************************************************************)
(* load_all_data, one action per stage                                     *)
(***************************************************************************)
\* data_loader.py 20-26
Standardize ==
    /\ pc = "start"
    /\ orders' = standardize_columns(orders)
    /\ delivery' = standardize_columns(delivery)
    /\ routes' = standardize_columns(routes)
    /\ vehicles' = standardize_columns(vehicles)
    /\ costs' = standardize_columns(costs)
    /\ warehouse' = standardize_columns(warehouse)
    /\ feedback' = standardize_columns(feedback)
    /\ pc' = "standardized"
    /\ UNCHANGED <<df, err, trainVars>>

\* data_loader.py 29-36
RenameIds ==
    /\ pc = "standardized"
    /\ orders' = auto_rename_id(orders, OrderIdNames, "order_id")
    /\ delivery' = auto_rename_id(delivery, OrderIdNames, "order_id")
    /\ costs' = auto_rename_id(costs, OrderIdNames, "order_id")
    /\ routes' = auto_rename_id(routes, OrderIdNames, "order_id")
    /\ feedback' = auto_rename_id(feedback, OrderIdNames, "order_id")
    /\ vehicles' = auto_rename_id(vehicles, VehicleIdNames, "vehicle_id")
    /\ warehouse' = auto_rename_id(warehouse, WarehouseIdNames, "warehouse_id")
    /\ pc' = "renamed"
    /\ UNCHANGED <<df, err, trainVars>>

\* data_loader.py 39-44
DeriveKeys ==
    /\ pc = "renamed"
    /\ routes' = IF Has(routes, "route")
                 THEN SetColumn(routes, "route_id", Column(routes, "route"))
                 ELSE routes
    /\ IF Has(orders, "customer_segment") /\ ~Has(orders, "customer_id")
       THEN IF Has(orders, "order_id")
            THEN /\ orders' = AddColumn(orders, "customer_id",
                                 [r \in 1..Len(orders.rows) |->
                                    CustomerIdOf(Cell(orders, r, "customer_segment"),
                                                 Cell(orders, r, "order_id"))])
                 /\ pc' = "derived" /\ err' = err
            ELSE orders' = orders /\ pc' = "raised" /\ err' = "KeyError"
       ELSE orders' = orders /\ pc' = "derived" /\ err' = err
    /\ UNCHANGED <<delivery, vehicles, costs, warehouse, feedback, df, trainVars>>

\* one of the three order_id joins: data_loader.py 47, 50, 52
JoinStep(from, to, left, right) ==
    /\ pc = from
    /\ IF MergeError(left, right, "order_id") # ""
       THEN df' = df /\ pc' = "raised" /\ err' = MergeError(left, right, "order_id")
       ELSE df' = Merge(left, right, "order_id") /\ pc' = to /\ err' = err
    /\ UNCHANGED <<loaderVars, trainVars>>

MergeDelivery == JoinStep("derived", "merged1", orders, delivery)
MergeRoutes == JoinStep("merged1", "merged2", df, routes)
MergeCosts == JoinStep("merged2", "merged3", df, costs)

\* data_loader.py 56-65
MergeFeedback ==
    /\ pc = "merged3"
    /\ IF FeedbackJoinError(df, feedback) # ""
       THEN /\ pc' = "raised" /\ err' = FeedbackJoinError(df, feedback)
            /\ UNCHANGED <<df, feedback>>
       ELSE /\ pc' = "joined" /\ err' = err
            /\ IF Has(df, "customer_id")
               THEN /\ feedback' = FeedbackWithCustomer(feedback, df)
                    /\ df' = Merge(df, PerCustomer(FeedbackWithCustomer(feedback, df)),
                                   "customer_id")
               ELSE /\ feedback' = feedback
                    /\ df' = Merge(df, feedback, "order_id")
    /\ UNCHANGED <<orders, delivery, routes, vehicles, costs, warehouse, trainVars>>

\* data_loader.py 68-123
DefaultAndReturn ==
    /\ pc = "joined"
    /\ df' = ApplyDefaults(df)
    /\ pc' = "returned"
    /\ UNCHANGED <<loaderVars, err, trainVars>>

Next ==
    \/ Standardize
    \/ RenameIds
    \/ DeriveKeys
    \/ MergeDelivery
    \/ MergeRoutes
    \/ MergeCosts
    \/ MergeFeedback
    \/ DefaultAndReturn

Spec == Init /\ [][Next]_vars

(***************************************************************************)
(* Claims about load_all_data                                              *)
(***************************************************************************)
Sources == <<orders, delivery, routes, vehicles, costs, warehouse, feedback>>

\* C1: whenever load_all_data returns, the returned table has every one of
\* the eleven required columns.
C1_RequiredColumnsPresent ==
    pc = "returned" => \A k \in 1..Len(Required) : Has(df, Required[k])

\* a return where a required column came in two tables, so that the joins
\* left it only under suffixed labels and the default supplied it
C1_Witness ==
    /\ pc = "returned"
    /\ Has(df, "fuel_cost_x") /\ Has(df, "fuel_cost_y") /\ Has(df, "fuel_cost")

\* C2: the returned table has exactly one row per row of orders, and no join
\* step changes the row count.
C2_OneRowPerOrder ==
    pc \in {"merged1", "merged2", "merged3", "joined", "returned"}
        => NRows(df) = NRows(orders)

\* C3: when no source column is named total_cost or contains "cost" or
\* "charge", total_cost is 1000 on every row of the returned table.
C3_FlatTotalCost ==
    (/\ pc = "returned"
     /\ \A k \in 1..Len(Sources) : \A i \in 1..Len(Sources[k].cols) :
            ~IsCostColumn(Sources[k].cols[i]))
        => \A r \in 1..NRows(df) : Cell(df, r, "total_cost") = Num(DefaultTotalCost)

\* the defaulting policy as the claim states it: column, alternate, constant
C4_Policy ==
    << <<"route_distance_km", "distance_km", Num(100)>>,
       <<"delivery_priority", "priority", Str("medium")>>,
       <<"maintenance_cost", "vehicle_maintenance", Num(200)>>,
       <<"expected_delivery_days", "promised_delivery_days", Num(3)>>,
       <<"feedback_score", "rating", Num(3)>>,
       <<"fuel_consumption_rate", "fuel_consumption_l", Num(5)>>,
       <<"vehicle_capacity", "", Num(1000)>>,
       <<"warehouse_load", "", Num(50)>>,
       <<"fuel_cost", "", Num(500)>>,
       <<"actual_delivery_days", "", Num(5)>> >>

\* C4: a policy column absent from the joined table equals its alternate
\* column row for row when the alternate is a column of the joined table, and
\* its constant on every row otherwise.
C4_DefaultingPolicy ==
    [][(pc = "joined" /\ pc' = "returned") =>
         \A k \in 1..Len(C4_Policy) :
            ~Has(df, C4_Policy[k][1]) =>
               /\ Has(df', C4_Policy[k][1])
               /\ NRows(df') = NRows(df)
               /\ \A r \in 1..NRows(df) :
                     Cell(df', r, C4_Policy[k][1]) =
                        IF C4_Policy[k][2] # "" /\ Has(df, C4_Policy[k][2])
                        THEN Cell(df, r, C4_Policy[k][2])
                        ELSE C4_Policy[k][3]]_vars

\* a return where one column was copied from its alternate, a NaN included,
\* and another was set to its constant
C4_Witness ==
    /\ pc = "returned"
    /\ Has(orders, "priority") /\ ~Has(orders, "delivery_priority")
    /\ \E r \in 1..NRows(df) : Cell(df, r, "delivery_priority") = Str("high")
    /\ \E r \in 1..NRows(df) : IsNull(Cell(df, r, "delivery_priority"))
    /\ \A r \in 1..NRows(df) : Cell(df, r, "route_distance_km") = Num(100)

\* C5: defaulting changes no cell of a required column that the joined table
\* already has; a NaN in such a column stays NaN.
C5_ExistingColumnsKept ==
    [][(pc = "joined" /\ pc' = "returned") =>
         \A k \in 1..Len(Required) :
            Has(df, Required[k]) =>
               /\ NRows(df') = NRows(df)
               /\ \A r \in 1..NRows(df) :
                     Cell(df', r, Required[k]) = Cell(df, r, Required[k])]_vars

\* a return where a required column came from delivery and is NaN on the
\* order that delivery has no row for
C5_Witness ==
    /\ pc = "returned"
    /\ Has(delivery, "actual_delivery_days")
    /\ \E r \in 1..NRows(df) : IsNull(Cell(df, r, "actual_delivery_days"))
    /\ \E r \in 1..NRows(df) : IsNum(Cell(df, r, "actual_delivery_days"))

\* what the claim says of one table across the renaming: the first candidate
\* (in list order) that is a column is the one label that changes
C8_RenamedAsClaimed(old, new, possible_names, standard_name) ==
    LET hits == {k \in 1..Len(possible_names) : Has(old, possible_names[k])}
        first == possible_names[CHOOSE k \in hits : \A h \in hits : k <= h]
    IN  /\ new.rows = old.rows
        /\ Len(new.cols) = Len(old.cols)
        /\ hits = {} => new.cols = old.cols
        /\ hits # {} =>
              \A i \in 1..Len(old.cols) :
                 new.cols[i] = IF old.cols[i] = first THEN standard_name
                               ELSE old.cols[i]

\* C8: auto_rename_id renames only the first candidate that is a column and
\* leaves every other label as it is (all labels, when no candidate is a
\* column); orders and delivery keyed by orderid or order_id both carry
\* order_id afterwards and their join on it finds its key.
C8_FirstCandidateRenamed ==
    [][(pc = "standardized" /\ pc' = "renamed") =>
         /\ C8_RenamedAsClaimed(orders, orders', OrderIdNames, "order_id")
         /\ C8_RenamedAsClaimed(delivery, delivery', OrderIdNames, "order_id")
         /\ C8_RenamedAsClaimed(costs, costs', OrderIdNames, "order_id")
         /\ C8_RenamedAsClaimed(routes, routes', OrderIdNames, "order_id")
         /\ C8_RenamedAsClaimed(feedback, feedback', OrderIdNames, "order_id")
         /\ C8_RenamedAsClaimed(vehicles, vehicles', VehicleIdNames, "vehicle_id")
         /\ C8_RenamedAsClaimed(warehouse, warehouse', WarehouseIdNames, "warehouse_id")
         /\ \A a, b \in Range(OrderIdNames) :
               (Has(orders, a) /\ Has(delivery, b)) =>
                  /\ Has(orders', "order_id") /\ Has(delivery', "order_id")
                  /\ MergeError(orders', delivery', "order_id") = ""]_vars

\* the join of orders and delivery went through, in a run where vehicles
\* came with both candidates as columns: the first became vehicle_id, the
\* second already was
C8_Witness ==
    /\ pc = "merged1" /\ err = ""
    /\ vehicles.cols = <<"vehicle_id", "vehicle_id">>
    /\ NRows(df) > 0 /\ Has(df, "delivery_status")

\* the first feedback row, in feedback order, whose order_id is the order_id
\* of a row of t with customer_id cust; 0 when there is none
C10_FirstFeedback(t, fb, cust) ==
    LET maps == {j \in 1..NRows(fb) :
                   \E q \in 1..NRows(t) :
                      /\ Cell(t, q, "order_id") = Cell(fb, j, "order_id")
                      /\ Cell(t, q, "customer_id") = cust}
    IN  IF maps = {} THEN 0 ELSE CHOOSE j \in maps : \A h \in maps : j <= h

\* the feedback columns that reach the fused table under their own label
C10_FeedbackColumns(t, fb) ==
    {c \in Range(fb.cols) : c \notin {"order_id", "customer_id"} /\ ~Has(t, c)}

FEATURES == <<"route_distance_km", "vehicle_capacity", "warehouse_load",
              "delivery_priority", "fuel_cost", "maintenance_cost">>

WithIndex(t) ==
    [cols |-> t.cols, rows |-> t.rows, index |-> [r \in 1..Len(t.rows) |-> r]]

ProjectIx(t, names) ==
    [cols |-> names, rows |-> Project(t, names).rows, index |-> t.index]

\* dropna() on an indexed table
DropNaIx(t) ==
    LET keep == [r \in 1..Len(t.rows) |->
                   \A i \in 1..Len(t.cols) : ~IsNull(t.rows[r][i])]
    IN  [cols |-> t.cols, rows |-> SelectSeq2(t.rows, keep, 1),
         index |-> SelectSeq2(t.index, keep, 1)]

\* a >= b in place of a > b
GreaterOrEqual(a, b) == IsNum(a) /\ IsNum(b) /\ a[2] >= b[2]

\* a > b on two cells; a comparison with NaN is False
Greater(a, b) == IsNum(a) /\ IsNum(b) /\ a[2] > b[2]

\* a label that stays NaN where a day count is NaN
DelayedNullable(t) ==
    [r \in 1..Len(t.rows) |->
       IF IsNull(Cell(t, r, "actual_delivery_days"))
          \/ IsNull(Cell(t, r, "expected_delivery_days"))
       THEN Null
       ELSE Num(IF Greater(Cell(t, r, "actual_delivery_days"),
                           Cell(t, r, "expected_delivery_days")) THEN 1 ELSE 0)]

\* (df["actual_delivery_days"] > df["expected_delivery_days"]).astype(int)
Delayed(t) ==
    [r \in 1..Len(t.rows) |->
       Num(IF Greater(Cell(t, r, "actual_delivery_days"),
                      Cell(t, r, "expected_delivery_days")) THEN 1 ELSE 0)]

\* the place of a category in the sort order of strings
Rank(s) ==
    CASE s = "high" -> 1 [] s = "low" -> 2 [] s = "medium" -> 3 [] s = "urgent" -> 4

RECURSIVE SortByRank(_)
SortByRank(S) ==
    IF S = {} THEN <<>>
    ELSE LET m == CHOOSE x \in S : \A y \in S : Rank(x) <= Rank(y)
         IN  <<m>> \o SortByRank(S \ {m})

\* LabelEncoder.fit: classes_ is the sorted sequence of the distinct values
Fit(values) == SortByRank({values[r][2] : r \in 1..Len(values)})

\* a transform that lets an unseen value through
TransformErrorNever(classes, cell) == ""

\* LabelEncoder.transform of one cell: the exception it ends in, "" if none
TransformError(classes, cell) ==
    IF IsStr(cell) /\ cell[2] \in Range(classes) THEN ""
    ELSE "ValueError: y contains previously unseen labels"

\* LabelEncoder.transform: the position of the value in the sorted classes_,
\* counted from 0
Transform(classes, cell) ==
    Num(Cardinality({k \in 1..Len(classes) : Rank(classes[k]) < Rank(cell[2])}))

\* select_dtypes(include="object"): the columns that hold text
ObjectColumns(t, input) ==
    {c \in Range(t.cols) : Has(input, c) /\ \E r \in 1..Len(input.rows) :
                                               IsStr(Cell(input, r, c))}

\* pd.to_numeric(errors="coerce") of one cell
ToNumeric(cell) == IF IsNum(cell) THEN cell ELSE Null

\* df_model[col] = enc.fit_transform(df_model[col]) for the columns of enc
EncodeCells(t, enc) ==
    [cols |-> t.cols,
     rows |-> [r \in 1..Len(t.rows) |->
                 [i \in 1..Len(t.cols) |->
                    IF t.cols[i] \in DOMAIN enc
                    THEN Transform(enc[t.cols[i]], t.rows[r][i])
                    ELSE t.rows[r][i]]],
     index |-> t.index]

\* df_model[col] = pd.to_numeric(df_model[col], errors="coerce") for col in feats
CoerceCells(t, feats) ==
    [cols |-> t.cols,
     rows |-> [r \in 1..Len(t.rows) |->
                 [i \in 1..Len(t.cols) |->
                    IF t.cols[i] \in Range(feats)
                    THEN ToNumeric(t.rows[r][i])
                    ELSE t.rows[r][i]]],
     index |-> t.index]

\* the number of rows of t with label k
ClassCount(t, k) ==
    Cardinality({r \in 1..Len(t.rows) : Cell(t, r, "delayed") = Num(k)})
Labels(t) == {Cell(t, r, "delayed") : r \in 1..Len(t.rows)}

\* ceil(0.25 * n), the size of the held-out partition
NTest(n) == (n + 3) \div 4

\* the ValueError train_test_split(test_size=0.25, stratify=y) ends in
SplitError(t) ==
    LET n == Len(t.rows)
        c == {ClassCount(t, k) : k \in {k \in {0, 1} : ClassCount(t, k) > 0}}
    IN  IF n - NTest(n) = 0 THEN "ValueError: the resulting train set will be empty"
        ELSE IF \E x \in c : x < 2
             THEN "ValueError: the least populated class in y has only 1 member"
        ELSE IF n - NTest(n) < Cardinality(Labels(t))
             THEN "ValueError: train_size should be at least the number of classes"
        ELSE IF NTest(n) < Cardinality(Labels(t))
             THEN "ValueError: test_size should be at least the number of classes"
        ELSE ""

\* the stratified allocation of d draws over the two label counts c:
\* proportional shares rounded down, the draw left over going to the label
\* with the larger remainder, to either on a tie
Allocations(c, d) ==
    LET n == c[1] + c[2]
        f == [k \in 1..2 |-> (c[k] * d) \div n]
        rem == [k \in 1..2 |-> (c[k] * d) % n]
    IN  IF f[1] + f[2] = d THEN {f}
        ELSE {[f EXCEPT ![k] = f[k] + 1] : k \in {k \in 1..2 : \A j \in 1..2 : rem[k] >= rem[j]}}

(***************************************************************************)
(* The tables train_delay_model is run on                                  *)
(***************************************************************************)
MaxTrainRows == 5

TrainCols == FEATURES \o <<"actual_delivery_days", "expected_delivery_days">>

\* a row of the fused table: priority, actual days, expected days, fuel cost
\* vary; the other features are the loader's defaults
TrainRow(priority, actual, expected, fuel) ==
    <<Num(100), Num(1000), Num(50), priority, fuel, Num(200), actual, expected>>

TrainRowKinds ==
    { TrainRow(Str("high"), Num(6), Num(4), Num(500)),   \* late
      TrainRow(Str("low"), Num(3), Num(5), Num(500)),    \* early
      TrainRow(Str("high"), Num(4), Num(4), Num(500)),   \* on the day
      TrainRow(Null, Num(6), Num(4), Num(500)),          \* no priority
      TrainRow(Str("low"), Null, Num(4), Num(500)),      \* not yet delivered
      TrainRow(Str("low"), Num(6), Num(4), Null) }       \* no fuel cost

\* the feature rows offered for a prediction beside the page's sample row
OfferedRows ==
    { <<Num(100), Num(1000), Num(50), Str(p), Num(500), Num(200)>> :
        p \in {"high", "low", "urgent"} }

InitTrain ==
    /\ \E rws \in SeqsUpTo(TrainRowKinds, 0, MaxTrainRows) :
          df = [cols |-> TrainCols, rows |-> rws]
    /\ orders = EmptyTable /\ delivery = EmptyTable /\ routes = EmptyTable
    /\ vehicles = EmptyTable /\ costs = EmptyTable /\ warehouse = EmptyTable
    /\ feedback = EmptyTable
    /\ pc = "t_start" /\ err = ""
    /\ InitTrainVars

(***************************************************************************)
(* train_delay_model, one action per stage                                 *)
(***************************************************************************)
\* model.py 9-20
TLabel ==
    /\ pc = "t_start"
    /\ df_model' = WithIndex(SetColumn(df, "delayed", Delayed(df)))
    /\ features' = FEATURES
    /\ pc' = "t_labelled"
    /\ UNCHANGED <<loaderVars, df, err, encoders, split, model, metrics, input_data, risk>>

\* model.py 23-24
TSelect ==
    /\ pc = "t_labelled"
    /\ df_model' = DropNaIx(ProjectIx(df_model, features \o <<"delayed">>))
    /\ pc' = "t_selected"
    /\ UNCHANGED <<loaderVars, df, err, encoders, split, model, metrics, features,
                   input_data, risk>>

\* model.py 27-31
TEncode ==
    /\ pc = "t_selected"
    /\ encoders' = [c \in ObjectColumns(df_model, df) |->
                      Fit([r \in 1..Len(df_model.rows) |->
                             df_model.rows[r][ColIdx(df_model, c)]])]
    /\ df_model' = EncodeCells(df_model, encoders')
    /\ pc' = "t_encoded"
    /\ UNCHANGED <<loaderVars, df, err, split, model, metrics, features, input_data, risk>>

\* model.py 34-39
TCoerce ==
    /\ pc = "t_encoded"
    /\ df_model' = DropNaIx(CoerceCells(df_model, features))
    /\ pc' = "t_coerced"
    /\ UNCHANGED <<loaderVars, df, err, encoders, split, model, metrics, features,
                   input_data, risk>>

\* model.py 41-43: the sizes of the two partitions per label; which rows the
\* seeded shuffle puts in each is left open
TSplit ==
    /\ pc = "t_coerced"
    /\ IF SplitError(df_model) # ""
       THEN pc' = "t_raised" /\ err' = SplitError(df_model) /\ split' = split
       ELSE LET n == Len(df_model.rows)
                c == <<ClassCount(df_model, 0), ClassCount(df_model, 1)>>
            IN  /\ \E a \in Allocations(c, n - NTest(n)) :
                      split' = [train |-> a, test |-> [k \in 1..2 |-> c[k] - a[k]]]
                /\ pc' = "t_split" /\ err' = err
    /\ UNCHANGED <<loaderVars, df, df_model, encoders, model, metrics, features,
                   input_data, risk>>

\* model.py 45-53: the fitted forest knows the labels of its training rows
TFit ==
    /\ pc = "t_split"
    /\ model' = [classes_ |-> SelectSeq2(<<0, 1>>,
                                         [k \in 1..2 |-> split.train[k] > 0], 1)]
    /\ pc' = "t_fitted"
    /\ UNCHANGED <<loaderVars, df, err, df_model, encoders, split, metrics, features,
                   input_data, risk>>

\* model.py 55-65: predict_proba has one column per known label, and
\* roc_auc_score wants both labels in the held-out rows
TEvaluate ==
    /\ pc = "t_fitted"
    /\ IF Len(model.classes_) < 2
       THEN /\ pc' = "t_raised" /\ metrics' = metrics
            /\ err' = "IndexError: index 1 is out of bounds for axis 1 with size 1"
       ELSE IF split.test[1] = 0 \/ split.test[2] = 0
       THEN /\ pc' = "t_raised" /\ metrics' = metrics
            /\ err' = "ValueError: only one class present in y_true"
       ELSE /\ pc' = "t_evaluated" /\ err' = err
            /\ metrics' = [confusion_matrix_rows |-> split.test]
    /\ UNCHANGED <<loaderVars, df, df_model, encoders, split, model, features,
                   input_data, risk>>

\* model.py 67
TReturn ==
    /\ pc = "t_evaluated"
    /\ pc' = "t_returned"
    /\ UNCHANGED <<loaderVars, df, err, trainVars>>

(***************************************************************************)
(* The prediction of the Delivery Risk Predictor page (app.py 180-193)     *)
(***************************************************************************)
\* df.head(1)
Head1(t) == [cols |-> t.cols,
             rows |-> IF Len(t.rows) = 0 THEN <<>> ELSE <<t.rows[1]>>]

\* app.py 183: the page offers the first complete feature row of df; the
\* inference interface takes any row of that shape
SampleInput ==
    /\ pc = "t_returned"
    /\ input_data' \in {Head1(DropNa(Project(df, features)))}
                         \cup {[cols |-> features, rows |-> <<row>>] : row \in OfferedRows}
    /\ pc' = "i_input"
    /\ UNCHANGED <<loaderVars, df, err, df_model, encoders, split, model, metrics,
                   features, risk>>

\* the exception the for loop of app.py 184-186 ends in, "" if none
EncodeInputError(enc, t) ==
    IF \E c \in DOMAIN enc : Has(t, c) /\ \E r \in 1..Len(t.rows) :
                                  TransformError(enc[c], Cell(t, r, c)) # ""
    THEN "ValueError: y contains previously unseen labels"
    ELSE ""

\* app.py 184-189
EncodeInput ==
    /\ pc = "i_input"
    /\ IF EncodeInputError(encoders, input_data) # ""
       THEN /\ pc' = "i_raised" /\ err' = EncodeInputError(encoders, input_data)
            /\ input_data' = input_data
       ELSE /\ pc' = "i_ready" /\ err' = err
            /\ input_data' =
                  [cols |-> input_data.cols,
                   rows |-> [r \in 1..Len(input_data.rows) |->
                               [i \in 1..Len(input_data.cols) |->
                                  IF input_data.cols[i] \in DOMAIN encoders
                                  THEN Transform(encoders[input_data.cols[i]],
                                                 input_data.rows[r][i])
                                  ELSE input_data.rows[r][i]]]]
    /\ UNCHANGED <<loaderVars, df, df_model, encoders, split, model, metrics,
                   features, risk>>

\* app.py 191-193: the forest's probability of label 1, in percent
Predict ==
    /\ pc = "i_ready"
    /\ Len(input_data.rows) > 0
    /\ \E p \in {0, 50, 100} : risk' = <<p>>
    /\ pc' = "i_done"
    /\ UNCHANGED <<loaderVars, df, err, df_model, encoders, split, model, metrics,
                   features, input_data>>

NextTrain ==
    \/ TLabel
    \/ TSelect
    \/ TEncode
    \/ TCoerce
    \/ TSplit
    \/ TFit
    \/ TEvaluate
    \/ TReturn
    \/ SampleInput
    \/ EncodeInput
    \/ Predict

SpecTrain == InitTrain /\ [][NextTrain]_vars

(***************************************************************************)
(* Claims about train_delay_model and the prediction                       *)
(***************************************************************************)
\* the stages at which df_model holds the rows left for the split
AfterDrop == {"t_coerced", "t_split", "t_fitted", "t_evaluated", "t_returned",
              "t_raised", "i_input", "i_ready", "i_raised", "i_done"}

\* the errors train_test_split raises, all of them before any fit
SplitErrors ==
    {"ValueError: the resulting train set will be empty",
     "ValueError: the least populated class in y has only 1 member",
     "ValueError: train_size should be at least the number of classes",
     "ValueError: test_size should be at least the number of classes"}

\* C6: when the rows left after dropping incomplete rows carry fewer than two
\* label values, train_delay_model returns no model and fits no model: it
\* ends in an error raised for the lack of rows or labels before the fit.
C6_DiversityErrorBeforeFit ==
    (pc \in AfterDrop /\ Cardinality(Labels(df_model)) < 2) =>
        /\ pc # "t_returned"
        /\ model = <<>>
        /\ (pc = "t_raised" => err \in SplitErrors)

\* the value of the categorical column c of input_data is none of the
\* categories its encoder was fitted on
C7_Unseen(c) ==
    /\ c \in DOMAIN encoders
    /\ \E r \in 1..Len(input_data.rows) : Cell(input_data, r, c)[2] \notin Range(encoders[c])

\* the category that classes_ gives the code of the cell
C7_Decoded(classes, cell) ==
    IF IsNum(cell) /\ cell[2] \in 0..(Len(classes) - 1)
    THEN Str(classes[cell[2] + 1]) ELSE Null

C7_Step ==
    /\ encoders' = encoders
    /\ (pc = "i_input" /\ C7_Unseen("delivery_priority")) =>
          (/\ pc' = "i_raised"
           /\ err' = "ValueError: y contains previously unseen labels"
           /\ risk' = <<>>)
    /\ (pc' = "i_done") => (pc = "i_ready")
    /\ (pc' = "i_ready") =>
          (\A r \in 1..Len(input_data.rows) :
              C7_Decoded(encoders["delivery_priority"],
                         Cell(input_data', r, "delivery_priority"))
                 = Cell(input_data, r, "delivery_priority"))

\* C7: a prediction on a row whose delivery_priority the encoder was not
\* fitted on ends in the unseen-labels ValueError and no probability; the
\* prediction leaves the encoders as training fitted them, and a row goes on
\* to the forest only under the code its category was fitted with.
C7_UnknownCategoryRaises ==
    [][(pc \in {"t_returned", "i_input", "i_ready"}) => C7_Step]_vars

\* a prediction that ended in the error on a priority training never saw,
\* with a forest fitted and no probability given
C7_Witness ==
    /\ pc = "i_raised"
    /\ err = "ValueError: y contains previously unseen labels"
    /\ Cell(input_data, 1, "delivery_priority") = Str("urgent")
    /\ model # <<>> /\ risk = <<>>

\* C9: every row left for the split has no NaN among its six features and
\* its label; its label is 1 exactly when the actual_delivery_days of the
\* input row it comes from is greater than its expected_delivery_days, 0
\* otherwise; and no input row with a NaN feature is left.
C9_CompleteLabelledRows ==
    pc \in AfterDrop =>
        /\ df_model.cols = FEATURES \o <<"delayed">>
        /\ \A r \in 1..Len(df_model.rows) :
              LET src == df_model.index[r]
                  a == Cell(df, src, "actual_delivery_days")
                  e == Cell(df, src, "expected_delivery_days")
              IN  /\ \A i \in 1..Len(df_model.cols) : ~IsNull(df_model.rows[r][i])
                  /\ Cell(df_model, r, "delayed") =
                        Num(IF IsNum(a) /\ IsNum(e) /\ a[2] > e[2] THEN 1 ELSE 0)
                  /\ \A k \in 1..Len(FEATURES) : ~IsNull(Cell(df, src, FEATURES[k]))
        /\ \A q \in 1..Len(df.rows) :
              (\E k \in 1..Len(FEATURES) : IsNull(Cell(df, q, FEATURES[k])))
                 => q \notin Range(df_model.index)

\* train_test_split was called on rows with both labels, out of an input
\* that also had a row with a NaN feature and a row delivered on the
\* expected day
C9_Witness ==
    /\ pc \in {"t_split", "t_raised"}
    /\ Labels(df_model) = {Num(0), Num(1)}
    /\ Len(df_model.rows) < Len(df.rows)
    /\ \E q \in 1..Len(df.rows) : IsNull(Cell(df, q, "delivery_priority"))
    /\ \E r \in 1..Len(df_model.rows) :
          Cell(df, df_model.index[r], "actual_delivery_days")
             = Cell(df, df_model.index[r], "expected_delivery_days")

\* the input rows with a NaN day count and six non-null features
C11_UndatedComplete ==
    {q \in 1..Len(df.rows) :
       /\ IsNull(Cell(df, q, "actual_delivery_days"))
             \/ IsNull(Cell(df, q, "expected_delivery_days"))
       /\ \A k \in 1..Len(FEATURES) : ~IsNull(Cell(df, q, FEATURES[k]))}

\* C11: an input row whose actual_delivery_days or expected_delivery_days is
\* NaN and whose six features are non-null is among the rows left for the
\* split, with the label 0.
C11_NullDaysLabelledOnTime ==
    pc \in AfterDrop =>
        \A q \in C11_UndatedComplete :
           \E r \in 1..Len(df_model.rows) :
              /\ df_model.index[r] = q
              /\ Cell(df_model, r, "delayed") = Num(0)

\* a forest fitted on rows one of which has no actual_delivery_days
C11_Witness ==
    /\ pc = "t_fitted"
    /\ C11_UndatedComplete # {}
    /\ \E r \in 1..Len(df_model.rows) :
          /\ IsNull(Cell(df, df_model.index[r], "actual_delivery_days"))
          /\ Cell(df_model, r, "delayed") = Num(0)

====
